---------------------------- MODULE Spec2Model ----------------------------
(***************************************************************************)
(* A model of sisyphus-font: the subtitle font extractor (fontscrape/      *)
(* subparse.py), the font library lookups (fontscrape/fonts.py) and the    *)
(* driver scripts (example.py, test.py).                                   *)
(*                                                                         *)
(* Strings are sequences of one-character strings, so that lower(),        *)
(* capitalize(), split(), join(), strip() and replace() are computed       *)
(* rather than assumed.  None is the record [kind |-> "None"]; an          *)
(* exception that leaves a function is a record whose kind is the          *)
(* exception's name.                                                       *)
(***************************************************************************)
EXTENDS Integers, Sequences, FiniteSets, TLC

VARIABLES
    pc,         \* where the process is
    hashseed,   \* the interpreter's string-hash seed, as far as it orders a set
    driver,     \* which script runs: "example" or "test"
    subs,       \* the subtitle files the driver's glob yields, in order
    sub_no,     \* how many of them the driver's loop has taken
    ssa_file,   \* SubParse.ssa_file: the file being parsed
    content,    \* SubParse.content
    _styles,    \* SubParse._styles
    _dialogue,  \* SubParse._dialogue
    library,    \* FontLibrary.library
    fonts,      \* the driver's fonts: the lookup results, then the set of Fonts
    firstRun,   \* what an earlier run on the same inputs ended with
    call,       \* the library method called last, with its arguments
    result      \* what that call returned

vars == <<pc, hashseed, driver, subs, sub_no, ssa_file, content, _styles, _dialogue,
          library, fonts, firstRun, call, result>>

---------------------------------------------------------------------------
(* Bounds of the model.                                                    *)

MaxStyles == 2      \* Style lines in a document
MaxDialogue == 2    \* Dialogue lines in a document
MaxLib == 2         \* fonts in a library
MaxDocs == 2        \* subtitle files in one driver run

---------------------------------------------------------------------------
(* Strings.                                                                *)

Upper == <<"A","B","C","D","E","F","G","H","I","J","K","L","M",
           "N","O","P","Q","R","S","T","U","V","W","X","Y","Z">>
Lower == <<"a","b","c","d","e","f","g","h","i","j","k","l","m",
           "n","o","p","q","r","s","t","u","v","w","x","y","z">>

LowerMap == [c \in {Upper[k] : k \in 1..26} |->
                Lower[CHOOSE k \in 1..26 : Upper[k] = c]] @@ <<>>
UpperMap == [c \in {Lower[k] : k \in 1..26} |->
                Upper[CHOOSE k \in 1..26 : Lower[k] = c]] @@ <<>>

\* str.lower()
lower(s) == [k \in 1..Len(s) |->
                IF s[k] \in DOMAIN LowerMap THEN LowerMap[s[k]] ELSE s[k]]

\* str.capitalize(): the first character upper case, the rest lower case
capitalize(s) ==
    [k \in 1..Len(s) |->
        IF k = 1
        THEN (IF s[k] \in DOMAIN UpperMap THEN UpperMap[s[k]] ELSE s[k])
        ELSE (IF s[k] \in DOMAIN LowerMap THEN LowerMap[s[k]] ELSE s[k])]

\* sep.join(parts)
RECURSIVE join(_, _)
join(sep, parts) ==
    IF Len(parts) = 0 THEN <<>>
    ELSE IF Len(parts) = 1 THEN parts[1]
    ELSE parts[1] \o sep \o join(sep, Tail(parts))

\* str.split(c) on a one-character separator: empty fields are kept
RECURSIVE SplitFrom(_, _, _, _)
SplitFrom(s, c, k, cur) ==
    IF k > Len(s) THEN <<cur>>
    ELSE IF s[k] = c THEN <<cur>> \o SplitFrom(s, c, k + 1, <<>>)
    ELSE SplitFrom(s, c, k + 1, Append(cur, s[k]))

split(s, c) == SplitFrom(s, c, 1, <<>>)

StartsWithAt(s, k, pat) ==
    /\ k + Len(pat) - 1 <= Len(s)
    /\ \A j \in 1..Len(pat) : s[k + j - 1] = pat[j]

\* str.replace(pat, ""): every occurrence, left to right, not overlapping
RECURSIVE RemoveFrom(_, _, _)
RemoveFrom(s, pat, k) ==
    IF k > Len(s) THEN <<>>
    ELSE IF StartsWithAt(s, k, pat) THEN RemoveFrom(s, pat, k + Len(pat))
    ELSE <<s[k]>> \o RemoveFrom(s, pat, k + 1)

remove(s, pat) == RemoveFrom(s, pat, 1)

IsSpace(c) == c \in {" ", "\t", "\n"}

\* str.strip()
RECURSIVE lstrip(_)
lstrip(s) == IF Len(s) > 0 /\ IsSpace(s[1]) THEN lstrip(Tail(s)) ELSE s

RECURSIVE rstrip(_)
rstrip(s) ==
    IF Len(s) > 0 /\ IsSpace(s[Len(s)])
    THEN rstrip(SubSeq(s, 1, Len(s) - 1)) ELSE s

strip(s) == rstrip(lstrip(s))

Digits == <<"0","1","2","3","4","5","6","7","8","9">>

\* f"{idx:05}": at least five digits, zero padded
RECURSIVE DecimalOf(_)
DecimalOf(n) ==
    IF n < 10 THEN <<Digits[n + 1]>>
    ELSE DecimalOf(n \div 10) \o <<Digits[(n % 10) + 1]>>

RECURSIVE ZeroPad(_, _)
ZeroPad(s, width) == IF Len(s) >= width THEN s ELSE ZeroPad(<<"0">> \o s, width)

Format05(idx) == ZeroPad(DecimalOf(idx), 5)

SeqToSet(s) == {s[k] : k \in 1..Len(s)}

Reverse(s) == [k \in 1..Len(s) |-> s[Len(s) + 1 - k]]

\* the sequences over S of length at most n
SeqsUpTo(S, n) == UNION {[1..k -> S] : k \in 0..n}

\* the sequences over S of length at most n that repeat no element
DistinctSeqsUpTo(S, n) ==
    {s \in SeqsUpTo(S, n) : \A i, j \in 1..Len(s) : i # j => s[i] # s[j]}

---------------------------------------------------------------------------
(* The words the model's strings are made of.                              *)

sp == <<" ">>
Arial == <<"A","r","i","a","l">>
Ariel == <<"A","r","i","e","l">>
bold == <<"b","o","l","d">>
italic == <<"i","t","a","l","i","c">>
semibold == <<"s","e","m","i","b","o","l","d">>
regular == <<"r","e","g","u","l","a","r">>
semi == <<"s","e","m","i">>
Bold == capitalize(bold)
Italic == capitalize(italic)
Semibold == capitalize(semibold)

---------------------------------------------------------------------------
(* fuzz.ratio of fuzzywuzzy: 100 for equal strings, 0 when one string is   *)
(* empty, else 100 * 2M/T rounded to the nearest integer (halves to the    *)
(* even one), where T is the two lengths added and M the number of         *)
(* matching characters: the length of a longest common subsequence, which  *)
(* is what the Levenshtein ratio counts.                                   *)

Max(a, b) == IF a >= b THEN a ELSE b

RECURSIVE LcsRow(_, _, _, _, _)
LcsRow(c, b, prev, cur, j) ==
    IF j > Len(b) THEN cur
    ELSE LET left == IF j = 1 THEN 0 ELSE cur[j - 1]
             diag == IF j = 1 THEN 0 ELSE prev[j - 1]
             v == IF c = b[j] THEN diag + 1 ELSE Max(prev[j], left)
             next == Append(cur, v)
         IN IF Len(next) = j THEN LcsRow(c, b, prev, next, j + 1) ELSE <<>>

RECURSIVE LcsFrom(_, _, _, _)
LcsFrom(a, b, prev, i) ==
    IF i > Len(a) THEN prev
    ELSE LET row == LcsRow(a[i], b, prev, <<>>, 1)
         IN IF Len(row) = Len(b) THEN LcsFrom(a, b, row, i + 1) ELSE <<>>

Matching(a, b) ==
    IF Len(a) = 0 \/ Len(b) = 0 THEN 0
    ELSE LcsFrom(a, b, [j \in 1..Len(b) |-> 0], 1)[Len(b)]

\* int(round(num / den)), halves to the even integer
RoundDiv(num, den) ==
    LET q == num \div den
        r == num % den
    IN IF 2 * r > den THEN q + 1
       ELSE IF 2 * r < den THEN q
       ELSE IF q % 2 = 0 THEN q ELSE q + 1

RatioOf(s1, s2) ==
    IF s1 = s2 THEN 100
    ELSE IF Len(s1) = 0 \/ Len(s2) = 0 THEN 0
    ELSE RoundDiv(200 * Matching(s1, s2), Len(s1) + Len(s2))

---------------------------------------------------------------------------
(* Font and FontResult.                                                    *)

None == [kind |-> "None"]

Font(family, subfamily, full_name, font_path) ==
    [family |-> family, subfamily |-> subfamily,
     full_name |-> full_name, font_path |-> font_path]

\* Font.__eq__ reads self.full_path, an attribute no Font has
Font__eq__(self, other) == [kind |-> "AttributeError"]

\* Font.__hash__: the hash of the full name
Font__hash__(self) == self.full_name

FontResult(font, family_match_score, subfamily_match_score, downgrade) ==
    [kind |-> "FontResult", font |-> font,
     family_match_score |-> family_match_score,
     subfamily_match_score |-> subfamily_match_score,
     downgrade |-> downgrade]

\* FontResult._total_score, for one side
TotalScore(r) == r.family_match_score * 1000 + r.subfamily_match_score

\* FontResult.__lt__
FontResult__lt__(self, other) == TotalScore(self) < TotalScore(other)

\* sorted(results): stable, by __lt__
RECURSIVE InsertSorted(_, _)
InsertSorted(x, s) ==
    IF Len(s) = 0 THEN <<x>>
    ELSE IF FontResult__lt__(x, Head(s)) THEN <<x>> \o s
    ELSE <<Head(s)>> \o InsertSorted(x, Tail(s))

RECURSIVE SortFrom(_, _, _)
SortFrom(s, k, acc) ==
    IF k > Len(s) THEN acc ELSE SortFrom(s, k + 1, InsertSorted(s[k], acc))

sorted(s) == SortFrom(s, 1, <<>>)

\* sorted(results, reverse=True): descending, equal elements in their order
sortedReverse(s) == Reverse(sorted(Reverse(s)))

\* A mutant of LastOrNone: sorted(results)[0], the lowest-ranked result
FirstOrNone(s) == IF Len(s) = 0 THEN None ELSE s[1]

\* sorted(results)[-1], or None on IndexError
LastOrNone(s) == IF Len(s) = 0 THEN None ELSE s[Len(s)]

---------------------------------------------------------------------------
(* The fonts, queries and thresholds the lookups are tried on.  A font's   *)
(* subfamily is lower case and sorted, as parse_library builds it.         *)

FontUniverse ==
    { Font(Arial, <<regular>>, Arial, "arial.ttf"),
      Font(Arial, <<bold>>, Arial \o sp \o Bold, "arialbd.ttf"),
      Font(Arial, <<semibold>>, Arial \o sp \o Semibold, "arialsb.ttf"),
      Font(Arial, <<bold, italic>>,
           Arial \o sp \o Bold \o sp \o Italic, "arialbi.ttf"),
      Font(Arial, <<bold>>, Arial \o sp \o Bold, "copy-of-arialbd.ttf"),
      Font(Ariel, <<regular>>, Ariel, "ariel.ttf") }

Families == {Arial, Ariel}

SubfamilyLists ==
    {<<>>, <<bold>>, <<italic>>, <<bold, italic>>, <<italic, bold>>,
     <<semibold>>}

Thresholds == {70, 90, 100}

\* The default threshold of every find method
DefaultThreshold == 90

Libraries == DistinctSeqsUpTo(FontUniverse, MaxLib)

---------------------------------------------------------------------------
(* The strings the lookups compare.                                        *)

\* f"{family} {sfmt}" with sfmt the capitalized tokens joined by a space
QueryFullName(family, subfamily) ==
    family \o sp \o
        join(sp, [k \in 1..Len(subfamily) |-> capitalize(subfamily[k])])

\* the font's lower-case full name with "semi" removed from every token
ffull_name(font) ==
    LET tokens == split(lower(font.full_name), " ")
    IN join(sp, [k \in 1..Len(tokens) |-> remove(tokens[k], semi)])

\* [i for i in tokens if i not in ["bold", "italic"]]
RECURSIVE NotBoldItalic(_)
NotBoldItalic(tokens) ==
    IF Len(tokens) = 0 THEN <<>>
    ELSE IF Head(tokens) \in {bold, italic} THEN NotBoldItalic(Tail(tokens))
    ELSE <<Head(tokens)>> \o NotBoldItalic(Tail(tokens))

\* The values of fuzz.ratio on the strings of the fonts and queries above,
\* computed once; any other pair of strings is computed where it is used.
RatioTable ==
    LET queries ==
            {lower(QueryFullName(f, sub)) : f \in Families, sub \in SubfamilyLists}
            \cup {lower(f) : f \in Families} \cup Families
            \cup {join(sp, NotBoldItalic(sub)) : sub \in SubfamilyLists}
        targets ==
            {lower(font.full_name) : font \in FontUniverse}
            \cup {ffull_name(font) : font \in FontUniverse}
            \cup {font.family : font \in FontUniverse}
            \cup {join(sp, NotBoldItalic(font.subfamily)) : font \in FontUniverse}
    IN [p \in queries \X targets |-> RatioOf(p[1], p[2])] @@ <<>>

ratio(s1, s2) ==
    IF <<s1, s2>> \in DOMAIN RatioTable THEN RatioTable[<<s1, s2>>]
    ELSE RatioOf(s1, s2)

\* A mutant of MeetsThreshold: the comparison turned round
MeetsThresholdReversed(score, threshold) == score <= threshold

\* family_score >= threshold
MeetsThreshold(score, threshold) == score >= threshold

\* for font in library: if the font's score meets the threshold, append a
\* FontResult; scores[k] is (family score, subfamily score) of library[k]
RECURSIVE Candidates(_, _, _, _, _)
Candidates(lib, scores, threshold, downgrade, k) ==
    IF k > Len(lib) THEN <<>>
    ELSE (IF MeetsThreshold(scores[k][1], threshold)
          THEN <<FontResult(lib[k], scores[k][1], scores[k][2], downgrade)>>
          ELSE <<>>)
         \o Candidates(lib, scores, threshold, downgrade, k + 1)

---------------------------------------------------------------------------
(* FontLibrary.find_font_by_full_name                                      *)

\* the first loop: the query's full name against each font's full name
FullNameTier(lib, family, subfamily, threshold) ==
    Candidates(lib,
        [k \in 1..Len(lib) |->
            <<ratio(lower(QueryFullName(family, subfamily)),
                    lower(lib[k].full_name)), 0>>],
        threshold, FALSE, 1)

\* the second loop: against each font's full name without "semi"
SemiTier(lib, family, subfamily, threshold) ==
    Candidates(lib,
        [k \in 1..Len(lib) |->
            <<ratio(lower(QueryFullName(family, subfamily)),
                    ffull_name(lib[k])), 0>>],
        threshold, FALSE, 1)

\* the third loop: the family alone against each font's full name
DowngradeTier(lib, family, threshold) ==
    Candidates(lib,
        [k \in 1..Len(lib) |->
            <<ratio(lower(family), lower(lib[k].full_name)), 0>>],
        threshold, TRUE, 1)

find_font_by_full_name(lib, family, subfamily, downgrade, threshold) ==
    LET first == FullNameTier(lib, family, subfamily, threshold)
        second == IF Len(first) = 0
                  THEN SemiTier(lib, family, subfamily, threshold)
                  ELSE first
        third == IF Len(second) = 0 /\ downgrade
                 THEN DowngradeTier(lib, family, threshold)
                 ELSE second
    IN LastOrNone(sorted(third))

---------------------------------------------------------------------------
(* FontLibrary.find_font_by_families                                       *)

\* the body under "if ignore_regular:"
FamiliesIgnoringRegular(lib, family, subfamily, downgrade, threshold) ==
    LET sub == join(sp, NotBoldItalic(subfamily))
        sfamOf(k) == join(sp, NotBoldItalic(lib[k].subfamily))
        scores == [k \in 1..Len(lib) |->
                      <<ratio(family, lib[k].family), ratio(sub, sfamOf(k))>>]
        looped == Candidates(lib, scores, threshold, FALSE, 1)
        last == Len(lib)
    IN IF Len(looped) = 0 /\ downgrade
       THEN IF last = 0
            THEN [kind |-> "UnboundLocalError"]  \* font was never assigned
            ELSE LastOrNone(sorted(
                    IF MeetsThreshold(scores[last][1], threshold)
                    THEN <<FontResult(lib[last], scores[last][1],
                                      scores[last][2], TRUE)>>
                    ELSE <<>>))
       ELSE LastOrNone(sorted(looped))

find_font_by_families(lib, family, subfamily, ignore_regular, downgrade, threshold) ==
    IF ignore_regular
    THEN FamiliesIgnoringRegular(lib, family, subfamily, downgrade, threshold)
    ELSE None   \* the function ends without a return statement

---------------------------------------------------------------------------
(* FontLibrary.find_font_by_family                                         *)

find_font_by_family(lib, family, threshold) ==
    sortedReverse(Candidates(lib,
        [k \in 1..Len(lib) |-> <<ratio(family, lib[k].family), 0>>],
        threshold, FALSE, 1))

---------------------------------------------------------------------------
(* The library's methods, each called on a library with arguments drawn    *)
(* from the sets above.                                                    *)

NoFile == [status |-> "none", lines |-> <<>>]
NoCall == [method |-> "none"]

InitFind ==
    /\ library \in Libraries
    /\ pc = "idle"
    /\ call = NoCall
    /\ result = None
    /\ hashseed = "unset"
    /\ driver = "none"
    /\ subs = <<>>
    /\ sub_no = 0
    /\ ssa_file = NoFile
    /\ content = <<>>
    /\ _styles = <<>>
    /\ _dialogue = <<>>
    /\ fonts = <<>>
    /\ firstRun = None

Returns(method, args, value) ==
    /\ pc = "idle"
    /\ pc' = "returned"
    /\ call' = [method |-> method, args |-> args]
    /\ result' = value
    /\ UNCHANGED <<hashseed, driver, subs, sub_no, ssa_file, content, _styles,
                   _dialogue, library, fonts, firstRun>>

FindFontByFullName ==
    \E family \in Families, subfamily \in SubfamilyLists,
       downgrade \in BOOLEAN, threshold \in Thresholds :
        Returns("find_font_by_full_name",
                [family |-> family, subfamily |-> subfamily,
                 downgrade |-> downgrade, threshold |-> threshold],
                find_font_by_full_name(library, family, subfamily, downgrade,
                                       threshold))

FindFontByFamilies ==
    \E family \in Families, subfamily \in SubfamilyLists,
       ignore_regular \in BOOLEAN, downgrade \in BOOLEAN,
       threshold \in Thresholds :
        Returns("find_font_by_families",
                [family |-> family, subfamily |-> subfamily,
                 ignore_regular |-> ignore_regular, downgrade |-> downgrade,
                 threshold |-> threshold],
                find_font_by_families(library, family, subfamily,
                                      ignore_regular, downgrade, threshold))

FindFontByFamily ==
    \E family \in Families, threshold \in Thresholds :
        Returns("find_font_by_family",
                [family |-> family, threshold |-> threshold],
                find_font_by_family(library, family, threshold))

\* a == b on two Fonts of the library
FontEq ==
    \E i, j \in 1..Len(library) :
        Returns("Font.__eq__", [self |-> library[i], other |-> library[j]],
                Font__eq__(library[i], library[j]))

NextFind ==
    \/ FindFontByFullName
    \/ FindFontByFamilies
    \/ FindFontByFamily
    \/ FontEq

SpecFind == InitFind /\ [][NextFind]_vars

---------------------------------------------------------------------------
(* Claims about the lookups (checked under SpecFind).                      *)

IsFontResult(r) == r.kind = "FontResult"

Returned(method) == pc = "returned" /\ call.method = method

\* the library positions whose score, by Score(_), meets the threshold
Clearing(Score(_), threshold) ==
    {k \in 1..Len(library) : Score(k) >= threshold}

\* r is a maximum-score candidate of the tier: a font at one of the positions
\* ks, with that font's score, no position of ks scoring higher
BestOf(r, ks, Score(_), downgrade) ==
    /\ IsFontResult(r)
    /\ r.downgrade = downgrade
    /\ r.subfamily_match_score = 0
    /\ \E k \in ks :
        /\ r.font = library[k]
        /\ r.family_match_score = Score(k)
        /\ \A j \in ks : Score(j) <= Score(k)

\* C1: find_font_by_full_name returns a maximum-score candidate of the first
\* tier that has a candidate, in the order (1) family plus capitalized
\* subfamily against the full name, (2) the same against the full name
\* without "semi", (3) the family alone, only with downgrade allowed; the
\* result carries downgrade = TRUE exactly when it comes from tier 3; it is
\* None exactly when no attempted tier has a candidate.
C1_FullNameTiers ==
    Returned("find_font_by_full_name") =>
        LET a == call.args
            name == lower(QueryFullName(a.family, a.subfamily))
            s1(k) == ratio(name, lower(library[k].full_name))
            s2(k) == ratio(name, remove(lower(library[k].full_name), semi))
            s3(k) == ratio(lower(a.family), lower(library[k].full_name))
            t1 == Clearing(s1, a.threshold)
            t2 == Clearing(s2, a.threshold)
            t3 == IF a.downgrade THEN Clearing(s3, a.threshold) ELSE {}
        IN IF t1 # {} THEN BestOf(result, t1, s1, FALSE)
           ELSE IF t2 # {} THEN BestOf(result, t2, s2, FALSE)
           ELSE IF t3 # {} THEN BestOf(result, t3, s3, TRUE)
           ELSE result = None

\* C1's cases: a result of each tier, two candidates of unequal score in the
\* winning tier, and no result with downgrade allowed
C1_Witness ==
    /\ Returned("find_font_by_full_name")
    /\ IsFontResult(result)
    /\ result.downgrade
    /\ Len(library) = 2
    /\ \E k \in 1..2 :
        ratio(lower(call.args.family), lower(library[k].full_name))
            < result.family_match_score

\* C2: find_font_by_families, with ignore_regular True or False, returns a
\* FontResult whenever some font's family similarity meets the threshold,
\* the one of maximal family_match_score * 1000 + subfamily_match_score among
\* those fonts, and None only when no font meets it.
C2_FamiliesReturnsBest ==
    (Returned("find_font_by_families") /\ ~call.args.downgrade) =>
        LET a == call.args
            fam(k) == ratio(a.family, library[k].family)
            sub(k) == ratio(join(sp, NotBoldItalic(a.subfamily)),
                            join(sp, NotBoldItalic(library[k].subfamily)))
            total(k) == fam(k) * 1000 + sub(k)
            ks == Clearing(fam, a.threshold)
        IN IF ks # {}
           THEN /\ IsFontResult(result)
                /\ \E k \in ks :
                    /\ result.font = library[k]
                    /\ TotalScore(result) = total(k)
                    /\ \A j \in ks : total(j) <= total(k)
           ELSE result = None

\* how many results a find method returned
CountOf(method, value) ==
    IF method = "find_font_by_family" THEN Len(value)
    ELSE IF IsFontResult(value) THEN 1 ELSE 0

\* the value a method returns on the library
Apply(method, a) ==
    CASE method = "find_font_by_full_name" ->
            find_font_by_full_name(library, a.family, a.subfamily,
                                   a.downgrade, a.threshold)
      [] method = "find_font_by_families" ->
            find_font_by_families(library, a.family, a.subfamily,
                                  a.ignore_regular, a.downgrade, a.threshold)
      [] method = "find_font_by_family" ->
            find_font_by_family(library, a.family, a.threshold)

FindMethods ==
    {"find_font_by_full_name", "find_font_by_families", "find_font_by_family"}

\* C8: on the same library and query, a find method called with a threshold
\* at least as high returns no more results: a list no longer, and no result
\* where the lower threshold gave none.
C8_ThresholdMonotonic ==
    (pc = "returned" /\ call.method \in FindMethods) =>
        \A t2 \in Thresholds :
            t2 >= call.args.threshold =>
                CountOf(call.method,
                        Apply(call.method, [call.args EXCEPT !.threshold = t2]))
                    <= CountOf(call.method, result)

\* C8's case: a call that returns a result where a higher threshold gives none
C8_Witness ==
    /\ pc = "returned"
    /\ call.method \in FindMethods
    /\ CountOf(call.method, result) > 0
    /\ \E t2 \in Thresholds :
        /\ t2 > call.args.threshold
        /\ CountOf(call.method,
                   Apply(call.method, [call.args EXCEPT !.threshold = t2]))
               < CountOf(call.method, result)

\* C9: two Font records compare equal exactly when they have the same path.
C9_EqualByPath ==
    Returned("Font.__eq__") =>
        result = [kind |-> "bool",
                  value |-> (call.args.self.font_path
                                 = call.args.other.font_path)]

---------------------------------------------------------------------------
(* SubParse.  A line of a subtitle file is a record of the fields the code *)
(* reads from it: of a "Style: " line the fields 0, 1, 7 and 8 of          *)
(* c.split(':')[1].split(','); of a "Dialogue: " line field 3 of           *)
(* c.split(',') and the override tags of its text, in the order they       *)
(* stand there; any other line is neither.                                 *)

StyleLine(name, family, flag_bold, flag_italic) ==
    [kind |-> "Style", name |-> name, family |-> family,
     bold |-> flag_bold, italic |-> flag_italic]

DialogueLine(style, tags) ==
    [kind |-> "Dialogue", style |-> style, tags |-> tags]

OtherLine == [kind |-> "Other"]

\* the override tags \fn<name>, \b<digits> and \i<digit>
fn(name) == [tag |-> "fn", name |-> name, value |-> 0]
b(n) == [tag |-> "b", name |-> <<>>, value |-> n]
i(n) == [tag |-> "i", name |-> <<>>, value |-> n]

SubFont(style, family, subfamily) ==
    [style |-> style, family |-> family, subfamily |-> subfamily]

\* re.search of one tag's pattern: the first tag of that kind, if any
re_search(tag, tags) ==
    LET found == SelectSeq(tags, LAMBDA t : t.tag = tag)
    IN IF Len(found) = 0 THEN <<>> ELSE <<found[1]>>

\* the elements of a list in the order a set is filled with them
RECURSIVE Inserted(_, _)
Inserted(list, seen) ==
    IF Len(list) = 0 THEN <<>>
    ELSE IF Head(list) \in seen THEN Inserted(Tail(list), seen)
    ELSE <<Head(list)>> \o Inserted(Tail(list), seen \cup {Head(list)})

\* What the string-hash seed decides: the order in which list(set) yields
\* two strings.  Their slots in the hash table differ (the order is that of
\* the slots, whichever was added first) or collide (the order is that of
\* the probing: as added, or the reverse).
HashSeeds == {"bold-first", "italic-first", "as-added", "reversed"}

\* list(a set filled from `list`)
ListOfSet(seed, list) ==
    LET added == Inserted(list, {})
    IN IF Len(added) < 2 THEN added
       ELSE CASE seed = "as-added" -> added
              [] seed = "reversed" -> Reverse(added)
              [] seed = "bold-first" -> <<bold, italic>>
              [] seed = "italic-first" -> <<italic, bold>>

\* list(set(subfamilies).union(style_subfamily))
UnionList(seed, subfamilies, style_subfamily) ==
    ListOfSet(seed, subfamilies \o style_subfamily)

\* list(set(subfamilies).difference(not_subfamilies))
DifferenceList(seed, subfamilies, not_subfamilies) ==
    ListOfSet(seed,
        SelectSeq(subfamilies, LAMBDA t : t \notin SeqToSet(not_subfamilies)))

\* SubParse.get_content: the lines, or the exception open() raises
get_content(file) ==
    CASE file.status = "ok" -> [kind |-> "ok", value |-> file.lines]
      [] file.status = "missing" -> [kind |-> "FileNotFoundError"]
      [] file.status = "denied" -> [kind |-> "PermissionError"]

\* the SubFont of one Style line
StyleSubFont(c) ==
    SubFont(strip(c.name), c.family,
            (IF c.bold = "-1" THEN <<bold>> ELSE <<>>)
                \o (IF c.italic = "-1" THEN <<italic>> ELSE <<>>))

\* A mutant of process_style_section: no style is pruned
process_style_section_unpruned(lines) ==
    LET styleLines == SelectSeq(lines, LAMBDA l : l.kind = "Style")
    IN [k \in 1..Len(styleLines) |-> StyleSubFont(styleLines[k])]

\* SubParse.process_style_section
process_style_section(lines) ==
    LET styleLines == SelectSeq(lines, LAMBDA l : l.kind = "Style")
        results == [k \in 1..Len(styleLines) |-> StyleSubFont(styleLines[k])]
        dialogue == SelectSeq(lines, LAMBDA l : l.kind = "Dialogue")
    IN SelectSeq(results,
           LAMBDA r : \E k \in 1..Len(dialogue) :
                          strip(dialogue[k].style) = r.style)

\* A mutant of InheritedSubfamilies: the style's subfamily is not united in
InheritedSubfamiliesNoUnion(seed, subfamilies, not_subfamilies, style) ==
    IF Len(subfamilies) > 0
    THEN ListOfSet(seed, subfamilies)
    ELSE DifferenceList(seed, subfamilies, not_subfamilies)

\* A mutant of InheritedSubfamilies: a line that only deactivates keeps the
\* style's other attributes
InheritedSubfamiliesFromStyle(seed, subfamilies, not_subfamilies, style) ==
    IF Len(subfamilies) > 0
    THEN UnionList(seed, subfamilies, style.subfamily)
    ELSE DifferenceList(seed, style.subfamily, not_subfamilies)

\* the subfamily of a dialogue line without a font-name override
InheritedSubfamilies(seed, subfamilies, not_subfamilies, style) ==
    IF Len(subfamilies) > 0
    THEN UnionList(seed, subfamilies, style.subfamily)
    ELSE DifferenceList(seed, subfamilies, not_subfamilies)

\* "dialogue:{idx:05}"
DialogueOrigin(idx) ==
    <<"d","i","a","l","o","g","u","e",":">> \o Format05(idx)

\* one pass of the loop of process_dialogue_section: the SubFonts the line
\* adds to results (none or one), given the style it names
DialogueSubFont(seed, idx, c, style) ==
    LET font_name == re_search("fn", c.tags)
        bold_tag == re_search("b", c.tags)
        italic_tag == re_search("i", c.tags)
        family == IF Len(font_name) > 0 THEN font_name[1].name ELSE <<>>
        subfamilies ==
            (IF Len(bold_tag) > 0 /\ bold_tag[1].value # 0
             THEN <<bold>> ELSE <<>>)
            \o (IF Len(italic_tag) > 0 /\ italic_tag[1].value # 0
                THEN <<italic>> ELSE <<>>)
        not_subfamilies ==
            (IF Len(bold_tag) > 0 /\ bold_tag[1].value = 0
             THEN <<bold>> ELSE <<>>)
            \o (IF Len(italic_tag) > 0 /\ italic_tag[1].value = 0
                THEN <<italic>> ELSE <<>>)
    IN IF Len(family) > 0 \/ Len(subfamilies) > 0 \/ Len(not_subfamilies) > 0
       THEN IF Len(family) = 0
            THEN <<SubFont(DialogueOrigin(idx), style.family,
                           InheritedSubfamilies(seed, subfamilies,
                                                not_subfamilies, style))>>
            ELSE <<SubFont(DialogueOrigin(idx), family, subfamilies)>>
       ELSE <<>>

\* [i for i in self._styles if i.style == c.split(',')[3]]
StylesNamed(styles, c) == SelectSeq(styles, LAMBDA s : s.style = c.style)

RECURSIVE DialogueFrom(_, _, _, _, _)
DialogueFrom(seed, dialogue, styles, k, results) ==
    IF k > Len(dialogue) THEN [kind |-> "ok", value |-> results]
    ELSE LET named == StylesNamed(styles, dialogue[k])
         IN IF Len(named) = 0 THEN [kind |-> "IndexError"]   \* [...][0]
            ELSE DialogueFrom(seed, dialogue, styles, k + 1,
                    results \o DialogueSubFont(seed, k - 1, dialogue[k],
                                               named[1]))

\* SubParse.process_dialogue_section
process_dialogue_section(seed, lines, styles) ==
    DialogueFrom(seed, SelectSeq(lines, LAMBDA l : l.kind = "Dialogue"),
                 styles, 1, <<>>)

\* SubParse.styles
styles_property(parsed_styles, parsed_dialogue) ==
    parsed_styles \o parsed_dialogue

---------------------------------------------------------------------------
(* The subtitle documents the extractor is tried on.                       *)

Main == <<"M","a","i","n">>
Alt == <<"A","l","t">>

\* After "Style:" the name field starts with the space that follows the colon
StyleLines ==
    { StyleLine(sp \o Main, Arial, "0", "0"),
      StyleLine(sp \o Main, Arial, "-1", "-1"),
      StyleLine(sp \o Alt, Ariel, "0", "-1"),
      StyleLine(sp \o Alt, Ariel, "-1", "0") }

DialogueLines ==
    { DialogueLine(Main, <<>>),
      DialogueLine(Main, <<b(1)>>),
      DialogueLine(Main, <<b(0)>>),
      DialogueLine(Main, <<fn(Ariel), b(1)>>),
      DialogueLine(Alt, <<i(1), b(0)>>),
      DialogueLine(Alt, <<b(0), i(0)>>),
      DialogueLine(Alt, <<b(1), b(0)>>),
      DialogueLine(Main \o sp, <<>>) }

\* a script: a header line, the Style lines, the events header, the
\* Dialogue lines
Script(styleLines, dialogueLines) ==
    <<OtherLine>> \o styleLines \o <<OtherLine>> \o dialogueLines

File(status, lines) == [status |-> status, lines |-> lines]

Files ==
    {File("ok", Script(st, dl)) :
        st \in SeqsUpTo(StyleLines, MaxStyles),
        dl \in SeqsUpTo(DialogueLines, MaxDialogue)}
    \cup {File("missing", <<>>), File("denied", <<>>)}

---------------------------------------------------------------------------
(* SubParse(ssa_file): the constructor, step by step.                      *)

InitParse ==
    /\ ssa_file \in Files
    /\ pc = "get_content"
    /\ hashseed \in HashSeeds
    /\ content = <<>>
    /\ _styles = <<>>
    /\ _dialogue = <<>>
    /\ result = None
    /\ call = NoCall
    /\ driver = "none"
    /\ subs = <<>>
    /\ sub_no = 0
    /\ library = <<>>
    /\ fonts = <<>>
    /\ firstRun = None

\* self.content = self.get_content()
GetContent ==
    /\ pc = "get_content"
    /\ LET got == get_content(ssa_file)
       IN IF got.kind = "ok"
          THEN /\ content' = got.value
               /\ pc' = "process_style_section"
               /\ UNCHANGED result
          ELSE /\ result' = got
               /\ pc' = "raised"
               /\ UNCHANGED content
    /\ UNCHANGED <<hashseed, driver, subs, sub_no, ssa_file, _styles, _dialogue,
                   library, fonts, firstRun, call>>

\* self._styles = self.process_style_section()
ProcessStyleSection ==
    /\ pc = "process_style_section"
    /\ _styles' = process_style_section(content)
    /\ pc' = "process_dialogue_section"
    /\ UNCHANGED <<hashseed, driver, subs, sub_no, ssa_file, content, _dialogue,
                   library, fonts, firstRun, call, result>>

\* self._dialogue = self.process_dialogue_section()
ProcessDialogueSection ==
    /\ pc = "process_dialogue_section"
    /\ LET got == process_dialogue_section(hashseed, content, _styles)
       IN IF got.kind = "ok"
          THEN /\ _dialogue' = got.value
               /\ pc' = "parsed"
               /\ UNCHANGED result
          ELSE /\ result' = got
               /\ pc' = "raised"
               /\ UNCHANGED _dialogue
    /\ UNCHANGED <<hashseed, driver, subs, sub_no, ssa_file, content, _styles,
                   library, fonts, firstRun, call>>

NextParse ==
    \/ GetContent
    \/ ProcessStyleSection
    \/ ProcessDialogueSection

SpecParse == InitParse /\ [][NextParse]_vars

---------------------------------------------------------------------------
(* Claims about the extractor (checked under SpecParse), stated on the     *)
(* lines of the file.                                                      *)

FileStyles == SelectSeq(ssa_file.lines, LAMBDA l : l.kind = "Style")
FileDialogue == SelectSeq(ssa_file.lines, LAMBDA l : l.kind = "Dialogue")

Parsed == pc = "parsed"

\* the attributes a Style line sets
StyleAttrs(l) ==
    (IF l.bold = "-1" THEN {bold} ELSE {})
        \cup (IF l.italic = "-1" THEN {italic} ELSE {})

\* the value of the first tag of a kind on a dialogue line, if there is one
FirstValues(d, tag) ==
    {d.tags[k].value : k \in {k \in 1..Len(d.tags) :
        /\ d.tags[k].tag = tag
        /\ \A j \in 1..(k - 1) : d.tags[j].tag # tag}}

\* the attributes a dialogue line's tags set active, and those they set off
Activated(d) ==
    (IF \E v \in FirstValues(d, "b") : v # 0 THEN {bold} ELSE {})
        \cup (IF \E v \in FirstValues(d, "i") : v # 0 THEN {italic} ELSE {})

Deactivated(d) ==
    (IF 0 \in FirstValues(d, "b") THEN {bold} ELSE {})
        \cup (IF 0 \in FirstValues(d, "i") THEN {italic} ELSE {})

HasOverride(d) == \E k \in 1..Len(d.tags) : d.tags[k].tag = "fn"

HasTag(d) == Len(d.tags) > 0

\* a Style line defines the style a dialogue line names, as the style pass
\* compares names
Names(d, l) == strip(d.style) = strip(l.name)

\* the Style line a dialogue line references: the first that defines its style
Referenced(d) ==
    FileStyles[CHOOSE k \in 1..Len(FileStyles) :
        /\ Names(d, FileStyles[k])
        /\ \A j \in 1..(k - 1) : ~Names(d, FileStyles[j])]

\* "dialogue:" and the line's index among the dialogue lines, on five digits
OriginOfLine(k) ==
    <<"d","i","a","l","o","g","u","e",":","0","0","0","0">>
        \o <<Digits[k]>>

\* the requirements produced for the k-th dialogue line
RequirementsOf(k) ==
    {r \in SeqToSet(_dialogue) : r.style = OriginOfLine(k)}

\* C3, as claimed: a dialogue line with a tag that sets bold or italic
\* active, with or without a font-name override, yields a requirement whose
\* subfamily is, as a set, the activated attributes united with the
\* referenced style's; without an override its family is the style's.
C3_UnionWithOrWithoutOverride ==
    Parsed =>
        \A k \in 1..Len(FileDialogue) :
            LET d == FileDialogue[k]
            IN Activated(d) # {} =>
                \E r \in RequirementsOf(k) :
                    /\ SeqToSet(r.subfamily)
                           = Activated(d) \cup StyleAttrs(Referenced(d))
                    /\ ~HasOverride(d) => r.family = Referenced(d).family

\* C3, amended: the same of a dialogue line with no font-name override.
C3_UnionWithoutOverride ==
    Parsed =>
        \A k \in 1..Len(FileDialogue) :
            LET d == FileDialogue[k]
            IN (Activated(d) # {} /\ ~HasOverride(d)) =>
                \E r \in RequirementsOf(k) :
                    /\ SeqToSet(r.subfamily)
                           = Activated(d) \cup StyleAttrs(Referenced(d))
                    /\ r.family = Referenced(d).family

\* C3's case: a line that activates an attribute, without an override, under
\* a style with an attribute the line does not activate
C3_Witness ==
    /\ Parsed
    /\ \E k \in 1..Len(FileDialogue) :
        LET d == FileDialogue[k]
        IN /\ Activated(d) # {}
           /\ ~HasOverride(d)
           /\ StyleAttrs(Referenced(d)) \ Activated(d) # {}
           /\ RequirementsOf(k) # {}

\* C4: the styles of a document that parses are the defined styles some
\* dialogue line references, in file order, then one requirement for each
\* dialogue line that carries a tag, in line order, its origin "dialogue:"
\* and the line's zero-padded index among the dialogue lines.
C4_StylesThenDialogue ==
    Parsed =>
        LET kept == SelectSeq(FileStyles,
                        LAMBDA l : \E k \in 1..Len(FileDialogue) :
                                       Names(FileDialogue[k], l))
            tagged == SelectSeq([k \in 1..Len(FileDialogue) |-> k],
                          LAMBDA k : HasTag(FileDialogue[k]))
            out == styles_property(_styles, _dialogue)
        IN /\ Len(out) = Len(kept) + Len(tagged)
           /\ \A j \in 1..Len(kept) :
                /\ out[j].style = strip(kept[j].name)
                /\ out[j].family = kept[j].family
                /\ SeqToSet(out[j].subfamily) = StyleAttrs(kept[j])
           /\ \A j \in 1..Len(tagged) :
                out[Len(kept) + j].style = OriginOfLine(tagged[j])

\* C4's case: of two defined styles one is never referenced, and of two
\* dialogue lines only the second carries a tag
C4_Witness ==
    /\ Parsed
    /\ Len(FileStyles) = 2
    /\ Len(_styles) = 1
    /\ Len(FileDialogue) = 2
    /\ ~HasTag(FileDialogue[1])
    /\ HasTag(FileDialogue[2])
    /\ Len(_dialogue) = 1

\* C7: a dialogue line whose tags only deactivate bold or italic, with no
\* font-name override, yields a requirement with the referenced style's
\* family and a subfamily holding no deactivated attribute and none of the
\* style's.
C7_DeactivationOnly ==
    Parsed =>
        \A k \in 1..Len(FileDialogue) :
            LET d == FileDialogue[k]
            IN (Activated(d) = {} /\ Deactivated(d) # {} /\ ~HasOverride(d)) =>
                \E r \in RequirementsOf(k) :
                    /\ r.family = Referenced(d).family
                    /\ SeqToSet(r.subfamily)
                           \cap (Deactivated(d) \cup StyleAttrs(Referenced(d)))
                           = {}

\* C7's case: such a line under a style with an attribute it does not
\* deactivate
C7_Witness ==
    /\ Parsed
    /\ \E k \in 1..Len(FileDialogue) :
        LET d == FileDialogue[k]
        IN /\ Activated(d) = {}
           /\ Deactivated(d) # {}
           /\ ~HasOverride(d)
           /\ StyleAttrs(Referenced(d)) \ Deactivated(d) # {}
           /\ RequirementsOf(k) # {}

\* C10: a document in which every dialogue line names a defined style, as
\* the style pass compares names, parses without a fault.
C10_DefinedStylesParse ==
    (/\ pc \in {"parsed", "raised"}
     /\ ssa_file.status = "ok"
     /\ \A k \in 1..Len(FileDialogue) :
            \E j \in 1..Len(FileStyles) :
                Names(FileDialogue[k], FileStyles[j]))
        => pc = "parsed"

---------------------------------------------------------------------------
(* The driver scripts: example.py catches FileNotFoundError and            *)
(* PermissionError and exits with status 2 or 3; test.py catches nothing.  *)

\* [i.font for i in fonts if i]: a FontResult is true, None is false
RECURSIVE FontsOf(_)
FontsOf(results) ==
    IF Len(results) = 0 THEN <<>>
    ELSE (IF IsFontResult(Head(results)) THEN <<Head(results).font>> ELSE <<>>)
         \o FontsOf(Tail(results))

\* set(list): an element is added unless the set holds it already; the set
\* compares it, by __eq__, with an element of the same hash that is not the
\* very same object (a library holds one Font object for each file)
RECURSIVE SetFrom(_, _)
SetFrom(list, acc) ==
    IF Len(list) = 0 THEN [kind |-> "ok", value |-> acc]
    ELSE LET x == Head(list)
             same == {e \in acc : Font__hash__(e) = Font__hash__(x)}
         IN IF x \in acc THEN SetFrom(Tail(list), acc)
            ELSE IF same = {} THEN SetFrom(Tail(list), acc \cup {x})
            ELSE LET eq == Font__eq__(CHOOSE e \in same : TRUE, x)
                 IN IF eq.kind # "bool" THEN eq
                    ELSE IF eq.value THEN SetFrom(Tail(list), acc)
                    ELSE SetFrom(Tail(list), acc \cup {x})

\* for style in styles: fonts.append(find_font_by_full_name(family=...,
\* subfamily=..., downgrade=True))
Resolve(lib, styles) ==
    [k \in 1..Len(styles) |->
        find_font_by_full_name(lib, styles[k].family, styles[k].subfamily,
                               TRUE, DefaultThreshold)]

\* SubParse(sub): the object's fields, or the exception that left __init__
SubParse(seed, file) ==
    LET got == get_content(file)
    IN IF got.kind # "ok" THEN got
       ELSE LET st == process_style_section(got.value)
                dl == process_dialogue_section(seed, got.value, st)
            IN IF dl.kind # "ok" THEN dl
               ELSE [kind |-> "ok", content |-> got.value,
                     styles |-> st, dialogue |-> dl.value]

\* how the script ends on an exception of SubParse: [pc, result]
OnException(script, e) ==
    IF script = "example" /\ e.kind = "FileNotFoundError"
    THEN <<"exited", [kind |-> "SystemExit", code |-> 2]>>
    ELSE IF script = "example" /\ e.kind = "PermissionError"
    THEN <<"exited", [kind |-> "SystemExit", code |-> 3]>>
    ELSE <<"crashed", e>>

Style(name, family, flag_bold, flag_italic) ==
    StyleLine(sp \o name, family, flag_bold, flag_italic)

DriverFiles ==
    { File("ok", Script(<<Style(Main, Arial, "0", "-1")>>,
                        <<DialogueLine(Main, <<b(1)>>)>>)),
      File("ok", Script(<<Style(Alt, Ariel, "-1", "0")>>,
                        <<DialogueLine(Alt, <<>>)>>)),
      File("ok", Script(<<Style(Main, Arial, "0", "0")>>,
                        <<DialogueLine(Main \o sp, <<>>)>>)),
      File("missing", <<>>),
      File("denied", <<>>) }

DriverLibraries ==
    { <<Font(Arial, <<bold, italic>>,
             Arial \o sp \o Bold \o sp \o Italic, "arialbi.ttf"),
        Font(Arial, <<regular>>, Arial, "arial.ttf")>>,
      <<Font(Arial, <<bold>>, Arial \o sp \o Bold, "arialbd.ttf"),
        Font(Arial, <<bold>>, Arial \o sp \o Bold, "copy-of-arialbd.ttf")>>,
      <<Font(Arial, <<bold>>, Arial \o sp \o Bold, "arialbd.ttf"),
        Font(Arial, <<bold, italic>>,
             Arial \o sp \o Bold \o sp \o Italic, "arialbi.ttf")>> }

Init ==
    /\ driver \in {"example", "test"}
    /\ subs \in SeqsUpTo(DriverFiles, MaxDocs)
    /\ library \in DriverLibraries
    /\ hashseed \in HashSeeds
    /\ pc = "loop"
    /\ sub_no = 0
    /\ fonts = <<>>
    /\ firstRun = None
    /\ ssa_file = NoFile
    /\ content = <<>>
    /\ _styles = <<>>
    /\ _dialogue = <<>>
    /\ call = NoCall
    /\ result = None

\* one pass of "for sub in subs:"
ProcessSubtitle ==
    /\ pc = "loop"
    /\ sub_no < Len(subs)
    /\ sub_no' = sub_no + 1
    /\ ssa_file' = subs[sub_no + 1]
    /\ LET sub_fonts == SubParse(hashseed, subs[sub_no + 1])
       IN IF sub_fonts.kind = "ok"
          THEN /\ content' = sub_fonts.content
               /\ _styles' = sub_fonts.styles
               /\ _dialogue' = sub_fonts.dialogue
               /\ fonts' = fonts \o
                    Resolve(library, styles_property(sub_fonts.styles,
                                                     sub_fonts.dialogue))
               /\ UNCHANGED <<pc, result>>
          ELSE /\ pc' = OnException(driver, sub_fonts)[1]
               /\ result' = OnException(driver, sub_fonts)[2]
               /\ UNCHANGED <<content, _styles, _dialogue, fonts>>
    /\ UNCHANGED <<hashseed, driver, subs, library, firstRun, call>>

\* fonts = set([i.font for i in fonts if i]), and the log of each font
Report ==
    /\ pc = "loop"
    /\ sub_no = Len(subs)
    /\ LET found == SetFrom(FontsOf(fonts), {})
       IN IF found.kind = "ok"
          THEN /\ fonts' = found.value
               /\ pc' = "done"
               /\ UNCHANGED result
          ELSE /\ pc' = "crashed"
               /\ result' = found
               /\ UNCHANGED fonts
    /\ UNCHANGED <<hashseed, driver, subs, sub_no, ssa_file, content, _styles,
                   _dialogue, library, firstRun, call>>

Ended == pc \in {"done", "exited", "crashed"}

\* what a run ended with
Outcome ==
    [kind |-> "run", pc |-> pc, fonts |-> fonts, result |-> result,
     styles |-> styles_property(_styles, _dialogue)]

\* the script is run once more on the same files and fonts, in a new process
Rerun ==
    /\ Ended
    /\ firstRun = None
    /\ firstRun' = Outcome
    /\ hashseed' \in HashSeeds
    /\ pc' = "loop"
    /\ sub_no' = 0
    /\ fonts' = <<>>
    /\ ssa_file' = NoFile
    /\ content' = <<>>
    /\ _styles' = <<>>
    /\ _dialogue' = <<>>
    /\ result' = None
    /\ UNCHANGED <<driver, subs, library, call>>

Next ==
    \/ ProcessSubtitle
    \/ Report
    \/ Rerun

Spec == Init /\ [][Next]_vars

---------------------------------------------------------------------------
(* Claims about the driver (checked under Spec).                           *)

\* C5: two runs on the same subtitle files and the same library end alike:
\* the same requirements, with the same subfamily token order, and the same
\* fonts.
C5_RunsAgree ==
    (Ended /\ firstRun # None) => firstRun = Outcome

\* C6: when opening one of the subtitle files fails, the run does not end
\* there: the other files are processed and the fonts are reported.
C6_OpenFailureDoesNotEndRun ==
    (Ended /\ \E k \in 1..sub_no : subs[k].status # "ok") => pc = "done"

===========================================================================
